---- MODULE Spec2Model ----
(***************************************************************************)
(* Model of scraper.py: the WURK custom-jobs scraper.  One run of main()   *)
(* checks the configuration, loads the persisted signatures, scrapes the   *)
(* job cards, filters the jobs whose signature was not persisted, tries to *)
(* notify, and saves the signatures of the current jobs.                   *)
(*                                                                         *)
(* Text is a sequence of one-character strings, so that stripping,         *)
(* whitespace collapsing, truncation and delimiter joining are computed    *)
(* character by character as Python computes them.                         *)
(***************************************************************************)
EXTENDS Integers, Sequences, FiniteSets, TLC

VARIABLES
    store,                \* the file previous_jobs.json
    bot_token, chat_id,   \* os.getenv results of the current run
    pc,                   \* position of the current run of main()
    previous_signatures,  \* main: previous_signatures
    current_jobs,         \* main: current_jobs
    new_jobs,             \* main: new_jobs
    job_cards,            \* scrape_wurk_jobs: job_cards
    jobs_data,            \* scrape_wurk_jobs: jobs_data
    idx,                  \* scrape_wurk_jobs: idx of the card loop
    browser,              \* "none", "open" or "closed"
    launches, closes,     \* browser launches / browser.close() calls of this run
    notify_calls,         \* argument lists the notifier body was entered with
    posts,                \* requests.post calls of this run
    loads, saves,         \* load_previous_jobs / save_current_jobs calls of this run
    trace,                \* steps of main() this run went through, in order
    exit_path,            \* how this run's scrape_wurk_jobs ended
    card_errors,          \* cards skipped by the inner except of this run
    abort_stage,          \* where this run stopped early ("" if it did not)
    save_outcome,         \* outcome of this run's save ("" before it)
    store_at_start,       \* the store when this run started
    last_saved_jobs,      \* jobs whose signatures the last successful save wrote
    runs,                 \* number of the current run
    sig_a, sig_b,         \* the two records of the signature specification
    sig_out,              \* their signatures, once computed
    desc_in, desc_out,    \* a description element's text and the description extracted
    prior_jobs,           \* what the previous run scraped ([] if it did not get that far)
    prior_outcome,        \* the previous run's save outcome ("" if it did not save)
    ever_persisted        \* the signatures some successful save has written so far

vars == <<store, bot_token, chat_id, pc, previous_signatures, current_jobs,
          new_jobs, job_cards, jobs_data, idx, browser, launches, closes,
          notify_calls, posts, loads, saves, trace, exit_path, card_errors,
          abort_stage, save_outcome, store_at_start, last_saved_jobs, runs,
          sig_a, sig_b, sig_out, desc_in, desc_out, prior_jobs, prior_outcome,
          ever_persisted>>

-----------------------------------------------------------------------------
(* Bounds of the model *)

MaxRuns == 2

MaxCards == 2

MaxFieldLen == 1

\* cards per page in the runs that record their history
HistMaxCards == 1

\* description texts are drawn up to this many characters beyond the cap
MaxOver == 40

-----------------------------------------------------------------------------
(* Text *)

\* the characters str.split() and str.strip() treat as blank
Whitespace == {" ", "\t", "\n"}

RECURSIVE lstrip(_)
lstrip(s) ==
    IF s = <<>> THEN <<>>
    ELSE IF Head(s) \in Whitespace THEN lstrip(Tail(s)) ELSE s

RECURSIVE rstrip(_)
rstrip(s) ==
    IF s = <<>> THEN <<>>
    ELSE IF s[Len(s)] \in Whitespace THEN rstrip(SubSeq(s, 1, Len(s) - 1)) ELSE s

\* str.strip()
strip(s) == rstrip(lstrip(s))

\* str.split(): the maximal runs of non-whitespace characters, in order; a run
\* starts after a blank or at the front and ends before the next blank
split(s) ==
    LET Starts(i) == s[i] \notin Whitespace /\ (i = 1 \/ s[i - 1] \in Whitespace)
        starts == SelectSeq([i \in 1..Len(s) |-> i], Starts)
        end(i) == CHOOSE j \in i..Len(s) :
                     /\ \A k \in i..j : s[k] \notin Whitespace
                     /\ j = Len(s) \/ s[j + 1] \in Whitespace
    IN  [k \in 1..Len(starts) |-> SubSeq(s, starts[k], end(starts[k]))]

\* " ".join(words), the list taken by halves
RECURSIVE join(_)
join(words) ==
    IF words = <<>> THEN <<>>
    ELSE IF Len(words) = 1 THEN words[1]
    ELSE LET half == Len(words) \div 2
         IN  join(SubSeq(words, 1, half)) \o <<" ">>
             \o join(SubSeq(words, half + 1, Len(words)))

DescriptionCap == 200

DescriptionKeep == 197

Ellipsis == <<".", ".", ".">>

\* the same clean-up with the cut applied to every text longer than what is kept
clean_description_cut_early(text) ==
    LET collapsed == join(split(text))
    IN  IF Len(collapsed) > DescriptionKeep
        THEN SubSeq(collapsed, 1, DescriptionKeep) \o Ellipsis
        ELSE collapsed

\* description = " ".join(description.split()); cut to 197 + "..." beyond 200
clean_description(text) ==
    LET collapsed == join(split(text))
    IN  IF Len(collapsed) > DescriptionCap
        THEN SubSeq(collapsed, 1, DescriptionKeep) \o Ellipsis
        ELSE collapsed

Unknown == <<"U", "n", "k", "n", "o", "w", "n">>

NotAvailable == <<"N", "/", "A">>

NoDescription == <<"N", "o", " ", "d", "e", "s", "c", "r", "i", "p", "t", "i", "o", "n">>

-----------------------------------------------------------------------------
(* Page elements and job cards *)

\* query_selector returns None or an element with its inner_text
None == [ok |-> FALSE, text |-> <<>>]

Elem(t) == [ok |-> TRUE, text |-> t]

NoPrimary == [ok |-> FALSE, usd_symbol |-> None, usd_value |-> None, usd_label |-> None]

NoSecondary == [ok |-> FALSE, sol_value |-> None, sol_label |-> None]

Primary(s, v, l) == [ok |-> TRUE, usd_symbol |-> s, usd_value |-> v, usd_label |-> l]

Secondary(v, l) == [ok |-> TRUE, sol_value |-> v, sol_label |-> l]

Card(creator, timing, primary, secondary, desc, raises) ==
    [creator_elem |-> creator, timing_elem |-> timing, reward_primary |-> primary,
     reward_secondary |-> secondary, desc_elem |-> desc, raises |-> raises]

Usd == Primary(Elem(<<"$">>), Elem(<<"5">>), Elem(<<"U">>))

Sol == Secondary(Elem(<<"3">>), Elem(<<"S">>))

\* job A; CardA2 is the same job polled later: only the countdown differs
CardA == Card(Elem(<<" ", "a">>), Elem(<<"1", "h", " ">>), Usd, Sol,
              Elem(<<"x", " ", " ", "y">>), FALSE)

CardA2 == Card(Elem(<<" ", "a">>), Elem(<<"2", "h">>), Usd, Sol,
               Elem(<<"x", " ", " ", "y">>), FALSE)

\* job B: only the secondary reward resolves; its texts hold a backslash and a quote
CardB == Card(Elem(<<"b", "\\">>), None, NoPrimary, Sol, Elem(<<"\"", "z">>), FALSE)

\* a card with no creator and no description, and a primary reward lacking its label
CardBare == Card(None, None, Primary(Elem(<<"$">>), Elem(<<"5">>), None), NoSecondary,
                 None, FALSE)

\* a card whose processing raises (an element detached while it is read)
CardBad == Card(Elem(<<"a">>), None, Usd, NoSecondary, Elem(<<"x">>), TRUE)

CardUniverse == {CardA, CardA2, CardB, CardBare, CardBad}

\* the reward text of a card, lines 56-85
reward_of(card) ==
    LET p == card.reward_primary
        s == card.reward_secondary
        primary_text ==
            IF p.ok /\ p.usd_symbol.ok /\ p.usd_value.ok /\ p.usd_label.ok
            THEN p.usd_symbol.text \o p.usd_value.text \o <<" ">> \o p.usd_label.text
            ELSE <<>>
        with_secondary ==
            IF s.ok /\ s.sol_value.ok /\ s.sol_label.ok
            THEN IF primary_text # <<>>
                 THEN primary_text \o <<" ", "(">> \o s.sol_value.text \o <<" ">>
                      \o s.sol_label.text \o <<")">>
                 ELSE s.sol_value.text \o <<" ">> \o s.sol_label.text
            ELSE primary_text
    IN  IF with_secondary = <<>> THEN NotAvailable ELSE with_secondary

\* the record appended for a card that is processed without error, lines 42-101
extract_card(card) ==
    [creator     |-> strip(IF card.creator_elem.ok THEN card.creator_elem.text ELSE Unknown),
     time_left   |-> IF card.timing_elem.ok THEN strip(card.timing_elem.text)
                     ELSE NotAvailable,
     reward      |-> strip(reward_of(card)),
     description |-> strip(clean_description(IF card.desc_elem.ok THEN card.desc_elem.text
                                             ELSE NoDescription))]

-----------------------------------------------------------------------------
(* Signatures, the store and the diff *)

Delimiter == <<"|">>

\* the signature with the countdown joined in as a fourth field
get_job_signature_with_time(job) ==
    job.creator \o Delimiter \o job.reward \o Delimiter \o job.description
    \o Delimiter \o job.time_left

\* the signature with the fields joined without the delimiter
get_job_signature_joined(job) == job.creator \o job.reward \o job.description

get_job_signature(job) ==
    job.creator \o Delimiter \o job.reward \o Delimiter \o job.description

\* [get_job_signature(job) for job in jobs_data]
signatures_of(jobs) == [i \in 1..Len(jobs) |-> get_job_signature(jobs[i])]

Range(s) == {s[i] : i \in 1..Len(s)}

\* json.dump writes a string between quotes with its quote and backslash
\* characters escaped
RECURSIVE json_escape(_)
json_escape(text) ==
    IF text = <<>> THEN <<>>
    ELSE (IF Head(text) \in {"\"", "\\"} THEN <<"\\", Head(text)>> ELSE <<Head(text)>>)
         \o json_escape(Tail(text))

\* json.load reads it back: the character after a backslash stands for itself
RECURSIVE json_unescape(_)
json_unescape(literal) ==
    IF literal = <<>> THEN <<>>
    ELSE IF Head(literal) = "\\" /\ Len(literal) >= 2
         THEN <<literal[2]>> \o json_unescape(Tail(Tail(literal)))
         ELSE <<Head(literal)>> \o json_unescape(Tail(literal))

\* previous_jobs.json: missing, unparsable, or a document {"signatures": [...]}
\* whose strings are kept as they stand in the file
StoreAbsent == [kind |-> "absent", signatures |-> <<>>]

StoreUnparsable == [kind |-> "unparsable", signatures |-> <<>>]

StoreDoc(sigs) ==
    [kind |-> "doc", signatures |-> [i \in 1..Len(sigs) |-> json_escape(sigs[i])]]

\* files that parse as JSON without being such a document: a top-level value
\* that is no object, an object without the key, and an object whose
\* "signatures" is null or one string
StoreNotObject == [kind |-> "not_object", signatures |-> <<>>]

StoreNoKey == [kind |-> "no_key", signatures |-> <<>>]

StoreSigNull == [kind |-> "sig_null", signatures |-> <<>>]

StoreSigString(text) == [kind |-> "sig_string", signatures |-> <<json_escape(text)>>]

\* the same load without the decoding of the strings
load_previous_jobs_raw(file) ==
    CASE file.kind = "doc" -> Range(file.signatures)
      [] file.kind = "sig_string" ->
            {<<file.signatures[1][i]>> : i \in 1..Len(file.signatures[1])}
      [] OTHER -> {}

\* load_previous_jobs, lines 119-129: set(data.get('signatures', [])), and set()
\* when the file is missing or anything raises (json.load on a damaged file,
\* .get on a value that is no object, set(None)); set() of a string is the set
\* of its characters
load_previous_jobs(file) ==
    CASE file.kind = "doc" -> {json_unescape(file.signatures[i]) : i \in 1..Len(file.signatures)}
      [] file.kind = "sig_string" ->
            LET text == json_unescape(file.signatures[1])
            IN  {<<text[i]>> : i \in 1..Len(text)}
      [] OTHER -> {}

\* for job in current_jobs: append when the signature is not in previous_signatures
RECURSIVE find_new_jobs_from(_, _, _)
find_new_jobs_from(current, previous, found) ==
    IF current = <<>> THEN found
    ELSE find_new_jobs_from(Tail(current), previous,
                            IF get_job_signature(Head(current)) \notin previous
                            THEN Append(found, Head(current))
                            ELSE found)

\* a diff that also remembers the signatures met earlier in the same listing
RECURSIVE find_new_jobs_seen_from(_, _, _)
find_new_jobs_seen_from(current, seen, found) ==
    IF current = <<>> THEN found
    ELSE LET sig == get_job_signature(Head(current))
         IN  find_new_jobs_seen_from(Tail(current), seen \cup {sig},
                                     IF sig \notin seen THEN Append(found, Head(current))
                                     ELSE found)

find_new_jobs_seen(current, previous) == find_new_jobs_seen_from(current, previous, <<>>)

find_new_jobs(current, previous) == find_new_jobs_from(current, previous, <<>>)

-----------------------------------------------------------------------------
(* The environment of a run *)

\* os.getenv gives None for a variable that is not set
EnvNone == "<None>"

EnvValues == {EnvNone, "", "secret"}

\* "not value" of Python: None and the empty string are false
falsy(value) == value = EnvNone \/ value = ""

\* the lists of cards query_selector_all can return once a card has appeared
RECURSIVE CardLists(_)
CardLists(n) ==
    IF n = 0 THEN {<<>>}
    ELSE LET shorter == CardLists(n - 1)
         IN  shorter \cup {Append(l, c) : l \in {x \in shorter : Len(x) = n - 1},
                                          c \in CardUniverse}

Pages == {l \in CardLists(MaxCards) : Len(l) >= 1}

\* the stores a first run can find: no file, a damaged file, or the document an
\* earlier save wrote for some listing
InitialStores ==
    {StoreAbsent, StoreUnparsable, StoreNotObject, StoreNoKey, StoreSigNull,
     StoreSigString(<<"a", "b">>)}
    \cup {StoreDoc(signatures_of([i \in 1..Len(l) |-> extract_card(l[i])])) :
            l \in {x \in CardLists(MaxCards) : \A i \in 1..Len(x) : ~x[i].raises}}

\* the names the module binds with a def statement (lines 8, 115, 119, 131, 141
\* and 209); the statements of lines 149-207 follow the return of find_new_jobs
\* and belong to no function of their own
ModuleFunctions ==
    {"scrape_wurk_jobs", "get_job_signature", "load_previous_jobs",
     "save_current_jobs", "find_new_jobs", "main"}

NoRecord == [creator |-> <<>>, reward |-> <<>>, description |-> <<>>, time_left |-> <<>>]

-----------------------------------------------------------------------------
(* Runs of main() *)

\* the start of a first run, the history variables aside
InitRun ==
    /\ store \in InitialStores
    /\ store_at_start = store
    /\ bot_token = EnvNone
    /\ chat_id = EnvNone
    /\ pc = "start"
    /\ previous_signatures = {}
    /\ current_jobs = <<>>
    /\ new_jobs = <<>>
    /\ job_cards = <<>>
    /\ jobs_data = <<>>
    /\ idx = 0
    /\ browser = "none"
    /\ launches = 0
    /\ closes = 0
    /\ notify_calls = <<>>
    /\ posts = 0
    /\ loads = 0
    /\ saves = 0
    /\ trace = <<>>
    /\ exit_path = ""
    /\ card_errors = 0
    /\ abort_stage = ""
    /\ save_outcome = ""
    /\ last_saved_jobs = <<>>
    /\ runs = 1
    /\ sig_a = NoRecord
    /\ sig_b = NoRecord
    /\ sig_out = <<>>
    /\ desc_in = <<>>
    /\ desc_out = <<>>
    /\ prior_jobs = <<>>
    /\ prior_outcome = ""

Init ==
    /\ InitRun
    /\ ever_persisted = {}

\* the configuration check with "and" in place of "or"
MainConfig_BothMissing ==
    /\ pc = "start"
    /\ \E t \in EnvValues, c \in EnvValues :
        /\ bot_token' = t
        /\ chat_id' = c
        /\ IF falsy(t) /\ falsy(c)
           THEN pc' = "done" /\ abort_stage' = "config"
           ELSE pc' = "load" /\ abort_stage' = abort_stage
    /\ UNCHANGED <<store, previous_signatures, current_jobs, new_jobs, job_cards,
                   jobs_data, idx, browser, launches, closes, notify_calls, posts,
                   loads, saves, trace, exit_path, card_errors, save_outcome,
                   store_at_start, last_saved_jobs, runs, sig_a, sig_b, sig_out, desc_in, desc_out,
                   prior_jobs, prior_outcome, ever_persisted>>

\* lines 212-217: read the two variables, return when either is missing
MainConfig ==
    /\ pc = "start"
    /\ \E t \in EnvValues, c \in EnvValues :
        /\ bot_token' = t
        /\ chat_id' = c
        /\ IF falsy(t) \/ falsy(c)
           THEN pc' = "done" /\ abort_stage' = "config"
           ELSE pc' = "load" /\ abort_stage' = abort_stage
    /\ UNCHANGED <<store, previous_signatures, current_jobs, new_jobs, job_cards,
                   jobs_data, idx, browser, launches, closes, notify_calls, posts,
                   loads, saves, trace, exit_path, card_errors, save_outcome,
                   store_at_start, last_saved_jobs, runs, sig_a, sig_b, sig_out, desc_in, desc_out,
                   prior_jobs, prior_outcome, ever_persisted>>

\* line 222
MainLoad ==
    /\ pc = "load"
    /\ previous_signatures' = load_previous_jobs(store)
    /\ loads' = loads + 1
    /\ trace' = Append(trace, "load")
    /\ pc' = "launch"
    /\ UNCHANGED <<store, bot_token, chat_id, current_jobs, new_jobs, job_cards,
                   jobs_data, idx, browser, launches, closes, notify_calls, posts,
                   saves, exit_path, card_errors, abort_stage, save_outcome,
                   store_at_start, last_saved_jobs, runs, sig_a, sig_b, sig_out, desc_in, desc_out,
                   prior_jobs, prior_outcome, ever_persisted>>

\* lines 10-13: the browser and its page are acquired outside the try; when that
\* fails there is no session, and the exception leaves scrape_wurk_jobs and main
ScrapeLaunch ==
    /\ pc = "launch"
    /\ \/ /\ browser' = "open"
          /\ launches' = launches + 1
          /\ pc' = "page"
          /\ UNCHANGED <<exit_path, abort_stage>>
       \/ /\ pc' = "crashed"
          /\ exit_path' = "launch_error"
          /\ abort_stage' = "extract"
          /\ UNCHANGED <<browser, launches>>
    /\ UNCHANGED <<store, bot_token, chat_id, previous_signatures, current_jobs,
                   new_jobs, job_cards, jobs_data, idx, closes, notify_calls, posts,
                   loads, saves, trace, card_errors, save_outcome, store_at_start,
                   last_saved_jobs, runs, sig_a, sig_b, sig_out, desc_in, desc_out,
                   prior_jobs, prior_outcome, ever_persisted>>

\* the page step with an except handler that returns [] without closing
ScrapePage_FaultLeavesOpen ==
    /\ pc = "page"
    /\ \/ /\ \E cards \in Pages : job_cards' = cards
          /\ jobs_data' = <<>>
          /\ idx' = 1
          /\ pc' = "cards"
          /\ UNCHANGED <<current_jobs, exit_path, trace>>
       \/ /\ current_jobs' = <<>>
          /\ exit_path' = "page_fault"
          /\ trace' = Append(trace, "extract")
          /\ pc' = "diff"
          /\ UNCHANGED <<job_cards, jobs_data, idx>>
    /\ UNCHANGED <<store, bot_token, chat_id, previous_signatures, new_jobs, browser,
                   launches, closes, notify_calls, posts, loads, saves, card_errors,
                   abort_stage, save_outcome, store_at_start, last_saved_jobs, runs,
                   sig_a, sig_b, sig_out, desc_in, desc_out,
                   prior_jobs, prior_outcome, ever_persisted>>

\* lines 15-38 and 110-113: navigation, the toggle and the wait for a first card;
\* a failure of any of them (no card appearing included) closes the browser and
\* returns []
ScrapePageFrom(pages) ==
    /\ pc = "page"
    /\ \/ /\ \E cards \in pages : job_cards' = cards
          /\ jobs_data' = <<>>
          /\ idx' = 1
          /\ pc' = "cards"
          /\ UNCHANGED <<browser, closes, current_jobs, exit_path, trace>>
       \/ /\ browser' = "closed"
          /\ closes' = closes + 1
          /\ current_jobs' = <<>>
          /\ exit_path' = "page_fault"
          /\ trace' = Append(trace, "extract")
          /\ pc' = "diff"
          /\ UNCHANGED <<job_cards, jobs_data, idx>>
    /\ UNCHANGED <<store, bot_token, chat_id, previous_signatures, new_jobs, launches,
                   notify_calls, posts, loads, saves, card_errors, abort_stage,
                   save_outcome, store_at_start, last_saved_jobs, runs, sig_a, sig_b, sig_out, desc_in, desc_out,
                   prior_jobs, prior_outcome, ever_persisted>>

ScrapePage == ScrapePageFrom(Pages)

\* the card loop without its inner try: a raising card lands in the outer handler
ScrapeCard_ErrorAborts ==
    /\ pc = "cards"
    /\ idx <= Len(job_cards)
    /\ IF job_cards[idx].raises
       THEN /\ browser' = "closed"
            /\ closes' = closes + 1
            /\ current_jobs' = <<>>
            /\ exit_path' = "page_fault"
            /\ trace' = Append(trace, "extract")
            /\ pc' = "diff"
            /\ UNCHANGED <<jobs_data, idx, card_errors>>
       ELSE /\ jobs_data' = Append(jobs_data, extract_card(job_cards[idx]))
            /\ idx' = idx + 1
            /\ UNCHANGED <<browser, closes, current_jobs, exit_path, trace, pc,
                           card_errors>>
    /\ UNCHANGED <<store, bot_token, chat_id, previous_signatures, new_jobs, job_cards,
                   launches, notify_calls, posts, loads, saves, abort_stage,
                   save_outcome, store_at_start, last_saved_jobs, runs, sig_a, sig_b,
                   sig_out, desc_in, desc_out, prior_jobs, prior_outcome,
                   ever_persisted>>

\* lines 40-105: one card; an exception skips the card
ScrapeCard ==
    /\ pc = "cards"
    /\ idx <= Len(job_cards)
    /\ IF job_cards[idx].raises
       THEN card_errors' = card_errors + 1 /\ jobs_data' = jobs_data
       ELSE card_errors' = card_errors
            /\ jobs_data' = Append(jobs_data, extract_card(job_cards[idx]))
    /\ idx' = idx + 1
    /\ UNCHANGED <<store, bot_token, chat_id, pc, previous_signatures, current_jobs,
                   new_jobs, job_cards, browser, launches, closes, notify_calls, posts,
                   loads, saves, trace, exit_path, abort_stage, save_outcome,
                   store_at_start, last_saved_jobs, runs, sig_a, sig_b, sig_out, desc_in, desc_out,
                   prior_jobs, prior_outcome, ever_persisted>>

\* the normal return without the browser.close() of line 107
ScrapeReturn_NoClose ==
    /\ pc = "cards"
    /\ idx > Len(job_cards)
    /\ current_jobs' = jobs_data
    /\ exit_path' = "normal"
    /\ trace' = Append(trace, "extract")
    /\ pc' = "diff"
    /\ UNCHANGED <<store, bot_token, chat_id, previous_signatures, new_jobs, job_cards,
                   jobs_data, idx, browser, launches, closes, notify_calls, posts,
                   loads, saves, card_errors, abort_stage, save_outcome,
                   store_at_start, last_saved_jobs, runs, sig_a, sig_b, sig_out, desc_in, desc_out,
                   prior_jobs, prior_outcome, ever_persisted>>

\* lines 107-108 and 226; browser.close() is taken to succeed (Playwright's close
\* swallows the errors of a browser that is already gone)
ScrapeReturn ==
    /\ pc = "cards"
    /\ idx > Len(job_cards)
    /\ browser' = "closed"
    /\ closes' = closes + 1
    /\ current_jobs' = jobs_data
    /\ exit_path' = "normal"
    /\ trace' = Append(trace, "extract")
    /\ pc' = "diff"
    /\ UNCHANGED <<store, bot_token, chat_id, previous_signatures, new_jobs, job_cards,
                   jobs_data, idx, launches, notify_calls, posts, loads, saves,
                   card_errors, abort_stage, save_outcome, store_at_start,
                   last_saved_jobs, runs, sig_a, sig_b, sig_out, desc_in, desc_out,
                   prior_jobs, prior_outcome, ever_persisted>>

\* the diff with the save of line 243 moved up in front of the notification
MainDiff_SaveBeforeNotify ==
    /\ pc = "diff"
    /\ new_jobs' = find_new_jobs(current_jobs, previous_signatures)
    /\ store' = StoreDoc(signatures_of(current_jobs))
    /\ saves' = saves + 1
    /\ save_outcome' = "ok"
    /\ last_saved_jobs' = current_jobs
    /\ trace' = trace \o <<"diff", "save">>
    /\ pc' = IF new_jobs' # <<>> THEN "notify" ELSE "done"
    /\ UNCHANGED <<bot_token, chat_id, previous_signatures, current_jobs, job_cards,
                   jobs_data, idx, browser, launches, closes, notify_calls, posts,
                   loads, exit_path, card_errors, abort_stage, store_at_start, runs,
                   sig_a, sig_b, sig_out, desc_in, desc_out,
                   prior_jobs, prior_outcome, ever_persisted>>

\* lines 230-240: the diff and the choice between notifying and skipping
MainDiff ==
    /\ pc = "diff"
    /\ new_jobs' = find_new_jobs(current_jobs, previous_signatures)
    /\ trace' = Append(trace, "diff")
    /\ pc' = IF new_jobs' # <<>> THEN "notify" ELSE "save"
    /\ UNCHANGED <<store, bot_token, chat_id, previous_signatures, current_jobs,
                   job_cards, jobs_data, idx, browser, launches, closes, notify_calls,
                   posts, loads, saves, exit_path, card_errors, abort_stage,
                   save_outcome, store_at_start, last_saved_jobs, runs, sig_a, sig_b, sig_out, desc_in, desc_out,
                   prior_jobs, prior_outcome, ever_persisted>>

\* line 238: the call of send_telegram_message.  A name the module does not bind
\* raises NameError, which nothing in main catches.
MainNotify ==
    /\ pc = "notify"
    /\ trace' = Append(trace, "notify")
    /\ IF "send_telegram_message" \in ModuleFunctions
       THEN /\ notify_calls' = Append(notify_calls, new_jobs)
            /\ \E first_ok \in BOOLEAN : posts' = posts + (IF first_ok THEN 1 ELSE 2)
            /\ pc' = "save"
            /\ abort_stage' = abort_stage
       ELSE /\ pc' = "crashed"
            /\ abort_stage' = "notify"
            /\ UNCHANGED <<notify_calls, posts>>
    /\ UNCHANGED <<store, bot_token, chat_id, previous_signatures, current_jobs,
                   new_jobs, job_cards, jobs_data, idx, browser, launches, closes,
                   loads, saves, exit_path, card_errors, save_outcome, store_at_start,
                   last_saved_jobs, runs, sig_a, sig_b, sig_out, desc_in, desc_out,
                   prior_jobs, prior_outcome, ever_persisted>>

\* a save that opens the file for update and keeps what it held
save_current_jobs_merge(file, jobs, outcome) ==
    CASE outcome = "ok" ->
            [kind |-> "doc",
             signatures |-> (IF file.kind = "doc" THEN file.signatures ELSE <<>>)
                            \o StoreDoc(signatures_of(jobs)).signatures]
      [] outcome = "open_failed" -> file
      [] outcome = "write_failed" -> StoreUnparsable

\* save_current_jobs, lines 131-139: open(..., 'w') can fail and leave the file as
\* it was; once opened the file is truncated, and a failing write leaves a
\* document that does not parse.  Both exceptions are caught and printed.
save_current_jobs(file, jobs, outcome) ==
    CASE outcome = "ok" -> StoreDoc(signatures_of(jobs))
      [] outcome = "open_failed" -> file
      [] outcome = "write_failed" -> StoreUnparsable

SaveOutcomes == {"ok", "open_failed", "write_failed"}

\* line 243, the history variables aside
SaveStep ==
    /\ pc = "save"
    /\ \E outcome \in SaveOutcomes :
        /\ store' = save_current_jobs(store, current_jobs, outcome)
        /\ save_outcome' = outcome
        /\ last_saved_jobs' = IF outcome = "ok" THEN current_jobs ELSE last_saved_jobs
    /\ saves' = saves + 1
    /\ trace' = Append(trace, "save")
    /\ pc' = "done"
    /\ UNCHANGED <<bot_token, chat_id, previous_signatures, current_jobs, new_jobs,
                   job_cards, jobs_data, idx, browser, launches, closes, notify_calls,
                   posts, loads, exit_path, card_errors, abort_stage, store_at_start,
                   runs, sig_a, sig_b, sig_out, desc_in, desc_out>>

\* line 243
MainSave ==
    /\ SaveStep
    /\ UNCHANGED <<prior_jobs, prior_outcome, ever_persisted>>

\* scrape_wurk_jobs returned a list, by line 108 or by line 113
ScrapeReturned == exit_path \in {"normal", "page_fault"}

\* the next invocation of the script starts from the store the last one left
\* (the history variables aside)
NextRunStep ==
    /\ pc \in {"done", "crashed"}
    /\ runs < MaxRuns
    /\ runs' = runs + 1
    /\ store_at_start' = store
    /\ bot_token' = EnvNone
    /\ chat_id' = EnvNone
    /\ pc' = "start"
    /\ previous_signatures' = {}
    /\ current_jobs' = <<>>
    /\ new_jobs' = <<>>
    /\ job_cards' = <<>>
    /\ jobs_data' = <<>>
    /\ idx' = 0
    /\ browser' = "none"
    /\ launches' = 0
    /\ closes' = 0
    /\ notify_calls' = <<>>
    /\ posts' = 0
    /\ loads' = 0
    /\ saves' = 0
    /\ trace' = <<>>
    /\ exit_path' = ""
    /\ card_errors' = 0
    /\ abort_stage' = ""
    /\ save_outcome' = ""
    /\ UNCHANGED <<store, last_saved_jobs, sig_a, sig_b, sig_out, desc_in, desc_out>>

NextRun ==
    /\ NextRunStep
    /\ UNCHANGED <<prior_jobs, prior_outcome, ever_persisted>>

Next ==
    \/ MainConfig
    \/ MainLoad
    \/ ScrapeLaunch
    \/ ScrapePage
    \/ ScrapeCard
    \/ ScrapeReturn
    \/ MainDiff
    \/ MainNotify
    \/ MainSave
    \/ NextRun

Spec == Init /\ [][Next]_vars

-----------------------------------------------------------------------------
(* The same runs with their history recorded: what the previous run scraped   *)
(* and how its save ended, and every signature a successful save has written  *)

HistPages == {l \in CardLists(HistMaxCards) : Len(l) >= 1}

\* a document found by the first run was written by a save before it
HistInit ==
    /\ InitRun
    /\ ever_persisted = (IF store.kind = "doc" THEN load_previous_jobs(store) ELSE {})

HistScrapePage == ScrapePageFrom(HistPages)

HistMainSave ==
    /\ SaveStep
    /\ ever_persisted' = (IF save_outcome' = "ok"
                          THEN ever_persisted \cup Range(signatures_of(current_jobs))
                          ELSE ever_persisted)
    /\ UNCHANGED <<prior_jobs, prior_outcome>>

HistNextRun ==
    /\ NextRunStep
    /\ prior_jobs' = (IF ScrapeReturned THEN current_jobs ELSE <<>>)
    /\ prior_outcome' = save_outcome
    /\ UNCHANGED ever_persisted

HistNext ==
    \/ MainConfig
    \/ MainLoad
    \/ ScrapeLaunch
    \/ HistScrapePage
    \/ ScrapeCard
    \/ ScrapeReturn
    \/ MainDiff
    \/ MainNotify
    \/ HistMainSave
    \/ HistNextRun

HistSpec == HistInit /\ [][HistNext]_vars

-----------------------------------------------------------------------------
(* The signature function on its own: two records drawn from all texts of at   *)
(* most MaxFieldLen characters, the delimiter among the characters             *)

SigAlphabet == {"a", "|"}

SigTexts == UNION {[1..n -> SigAlphabet] : n \in 0..MaxFieldLen}

SigRecords(time_lefts) ==
    [creator : SigTexts, reward : SigTexts, description : SigTexts,
     time_left : time_lefts]

SigInit ==
    /\ sig_a \in SigRecords({<<"1">>})
    /\ sig_b \in SigRecords({<<"1">>, <<"2">>})
    /\ sig_out = <<>>
    /\ store = StoreAbsent
    /\ store_at_start = store
    /\ bot_token = EnvNone
    /\ chat_id = EnvNone
    /\ pc = "start"
    /\ previous_signatures = {}
    /\ current_jobs = <<>>
    /\ new_jobs = <<>>
    /\ job_cards = <<>>
    /\ jobs_data = <<>>
    /\ idx = 0
    /\ browser = "none"
    /\ launches = 0
    /\ closes = 0
    /\ notify_calls = <<>>
    /\ posts = 0
    /\ loads = 0
    /\ saves = 0
    /\ trace = <<>>
    /\ exit_path = ""
    /\ card_errors = 0
    /\ abort_stage = ""
    /\ save_outcome = ""
    /\ last_saved_jobs = <<>>
    /\ runs = 1
    /\ desc_in = <<>>
    /\ desc_out = <<>>
    /\ prior_jobs = <<>>
    /\ prior_outcome = ""
    /\ ever_persisted = {}

Sign ==
    /\ sig_out = <<>>
    /\ sig_out' = <<get_job_signature(sig_a), get_job_signature(sig_b)>>
    /\ UNCHANGED <<store, bot_token, chat_id, pc, previous_signatures, current_jobs,
                   new_jobs, job_cards, jobs_data, idx, browser, launches, closes,
                   notify_calls, posts, loads, saves, trace, exit_path, card_errors,
                   abort_stage, save_outcome, store_at_start, last_saved_jobs, runs,
                   sig_a, sig_b, desc_in, desc_out, prior_jobs, prior_outcome,
                   ever_persisted>>

SigNext == Sign

SigSpec == SigInit /\ [][SigNext]_vars

-----------------------------------------------------------------------------
(* The description clean-up on its own: one card whose description element     *)
(* holds a text of up to DescriptionCap + MaxOver characters                   *)

DescShapes == {"solid", "words", "padded", "blanks", "gap"}

Digits == <<"0", "1", "2", "3", "4", "5", "6", "7", "8", "9">>

\* the character of a text depends on its position, so that a cut or a shift
\* shows in the result
DescChar(i) == Digits[(i % 10) + 1]

\* a text of n characters: without blanks; words parted by one space; blanks in
\* front and runs of two spaces; tabs and line breaks; one space where the cut falls
DescText(n, shape) ==
    [i \in 1..n |->
        CASE shape = "solid" -> DescChar(i)
          [] shape = "words" -> IF i % 7 = 0 THEN " " ELSE DescChar(i)
          [] shape = "padded" -> IF i <= 2 \/ i % 7 \in {0, 1} THEN " " ELSE DescChar(i)
          [] shape = "blanks" -> IF i % 5 = 0 THEN "\n"
                                 ELSE IF i % 5 = 1 THEN "\t" ELSE DescChar(i)
          [] shape = "gap" -> IF i = DescriptionKeep THEN " " ELSE DescChar(i)]

DescTexts == {DescText(n, shape) : n \in 0..(DescriptionCap + MaxOver), shape \in DescShapes}

DescInit ==
    /\ desc_in \in DescTexts
    /\ desc_out = <<>>
    /\ pc = "describe"
    /\ sig_a = NoRecord
    /\ sig_b = NoRecord
    /\ sig_out = <<>>
    /\ store = StoreAbsent
    /\ store_at_start = store
    /\ bot_token = EnvNone
    /\ chat_id = EnvNone
    /\ previous_signatures = {}
    /\ current_jobs = <<>>
    /\ new_jobs = <<>>
    /\ job_cards = <<>>
    /\ jobs_data = <<>>
    /\ idx = 0
    /\ browser = "none"
    /\ launches = 0
    /\ closes = 0
    /\ notify_calls = <<>>
    /\ posts = 0
    /\ loads = 0
    /\ saves = 0
    /\ trace = <<>>
    /\ exit_path = ""
    /\ card_errors = 0
    /\ abort_stage = ""
    /\ save_outcome = ""
    /\ last_saved_jobs = <<>>
    /\ runs = 1
    /\ prior_jobs = <<>>
    /\ prior_outcome = ""
    /\ ever_persisted = {}

\* lines 41-101 for a card whose description element holds desc_in: the
\* description of the record the loop body appends
Describe ==
    /\ pc = "describe"
    /\ desc_out' = extract_card(Card(None, None, NoPrimary, NoSecondary,
                                     Elem(desc_in), FALSE)).description
    /\ pc' = "described"
    /\ UNCHANGED <<store, bot_token, chat_id, previous_signatures, current_jobs,
                   new_jobs, job_cards, jobs_data, idx, browser, launches, closes,
                   notify_calls, posts, loads, saves, trace, exit_path, card_errors,
                   abort_stage, save_outcome, store_at_start, last_saved_jobs, runs,
                   sig_a, sig_b, sig_out, desc_in, prior_jobs, prior_outcome,
                   ever_persisted>>

DescNext == Describe

DescSpec == DescInit /\ [][DescNext]_vars

-----------------------------------------------------------------------------
(* Vocabulary of the claims *)

RunEnded == pc \in {"done", "crashed"}

ConfigOk == ~falsy(bot_token) /\ ~falsy(chat_id)

DiffDone == \E i \in 1..Len(trace) : trace[i] = "diff"

\* the signature set the next run would load
PersistedSet == load_previous_jobs(store)

CurrentSignatureSet == Range(signatures_of(current_jobs))

Content(job) == <<job.creator, job.reward, job.description>>

SameContent(j1, j2) == Content(j1) = Content(j2)

\* C1: in every run that passes the configuration check and whose scrape
\* returns a list, the persisted signature set at the end of the run is the
\* signature set of the current records, whatever the notification step did
\* (runs whose save itself faults are left aside).
C1_PersistedEqualsCurrent ==
    (RunEnded /\ ConfigOk /\ ScrapeReturned
        /\ save_outcome \notin {"open_failed", "write_failed"})
    => PersistedSet = CurrentSignatureSet

\* C2: once the diff is made and the notification step is behind, the notifier
\* has been entered exactly once with the new-records list when that list is
\* not empty, and not at all when it is empty.
C2_NotifierInvokedIffNew ==
    (DiffDone /\ pc \in {"save", "done", "crashed"})
    => notify_calls = (IF new_jobs # <<>> THEN <<new_jobs>> ELSE <<>>)

\* the positions of current_jobs whose signature is not in previous_signatures
NewPositions ==
    {i \in 1..Len(current_jobs) :
        get_job_signature(current_jobs[i]) \notin previous_signatures}

\* the k-th smallest of them
NewPosition(k) ==
    CHOOSE i \in NewPositions : Cardinality({j \in NewPositions : j < i}) = k - 1

\* C3: find_new_jobs(current, previous) is exactly the subsequence of current
\* whose signature is not a member of previous, in current's order, nothing
\* added, dropped or reordered; current and previous still hold what the
\* scrape returned and what the load gave.
C3_DiffIsOrderedFilter ==
    DiffDone =>
        /\ Len(new_jobs) = Cardinality(NewPositions)
        /\ \A k \in 1..Len(new_jobs) : new_jobs[k] = current_jobs[NewPosition(k)]
        /\ current_jobs = (IF exit_path = "normal" THEN jobs_data ELSE <<>>)
        /\ previous_signatures = load_previous_jobs(store_at_start)

\* a run whose listing holds a repeated job among unseen and seen ones
C3_Witness ==
    /\ DiffDone
    /\ Len(current_jobs) = 2
    /\ Len(new_jobs) = 1
    /\ new_jobs[1] = current_jobs[2]
    /\ previous_signatures # {}

TimeLefts == {<<"1", "h">>, <<"2", "h">>, NotAvailable}

\* the listings that differ from jobs only in the time_left values
TimeLeftVariants(jobs) ==
    {[i \in 1..Len(jobs) |-> [jobs[i] EXCEPT !.time_left = tl[i]]] :
        tl \in [1..Len(jobs) -> TimeLefts]}

IsNew(job, previous) == get_job_signature(job) \notin previous

WithoutTimeLeft(jobs) == [i \in 1..Len(jobs) |-> Content(jobs[i])]

\* C4: time_left does not influence change detection: a listing differing from
\* the current one only in time_left values gives the same new-record decision
\* for every record, the same new records and the same saved document; and a
\* record whose signature the store held at the start of the run is not new.
C4_TimeLeftIgnored ==
    DiffDone =>
        /\ \A alt \in TimeLeftVariants(current_jobs) :
            /\ \A i \in 1..Len(alt) :
                IsNew(alt[i], previous_signatures)
                    <=> IsNew(current_jobs[i], previous_signatures)
            /\ WithoutTimeLeft(find_new_jobs(alt, previous_signatures))
                    = WithoutTimeLeft(new_jobs)
            /\ \A outcome \in SaveOutcomes :
                save_current_jobs(store, alt, outcome)
                    = save_current_jobs(store, current_jobs, outcome)
        /\ \A i \in 1..Len(current_jobs) :
            get_job_signature(current_jobs[i]) \in load_previous_jobs(store_at_start)
                => \A k \in 1..Len(new_jobs) : new_jobs[k] # current_jobs[i]

\* the prior run saved job A; this run sees A with another time_left and does
\* not report it
C4_Witness ==
    /\ runs >= 2
    /\ DiffDone
    /\ store_at_start = StoreDoc(signatures_of(last_saved_jobs))
    /\ new_jobs = <<>>
    /\ \E i \in 1..Len(current_jobs), j \in 1..Len(last_saved_jobs) :
        /\ SameContent(current_jobs[i], last_saved_jobs[j])
        /\ current_jobs[i].time_left # last_saved_jobs[j].time_left

DelimiterFree(job) ==
    \A f \in {job.creator, job.reward, job.description} :
        \A i \in 1..Len(f) : <<f[i]>> # Delimiter

\* C5: two records without the delimiter in creator, reward and description
\* that differ in one of these fields have different signatures, and records
\* equal in the three fields have equal signatures.
C5_SignatureInjective ==
    sig_out # <<>> =>
        /\ (DelimiterFree(sig_a) /\ DelimiterFree(sig_b) /\ ~SameContent(sig_a, sig_b))
            => sig_out[1] # sig_out[2]
        /\ SameContent(sig_a, sig_b) => sig_out[1] = sig_out[2]

\* the same text in neighbouring fields: only the delimiter tells them apart
C5_Witness ==
    /\ sig_out # <<>>
    /\ sig_a.creator = <<"a">> /\ sig_a.reward = <<>> /\ sig_a.description = <<>>
    /\ sig_b.creator = <<>> /\ sig_b.reward = <<"a">> /\ sig_b.description = <<>>
    /\ sig_out[1] # sig_out[2]

\* the rank of a step in an order of steps (0 when it is not one of them)
Rank(order, step) ==
    IF \E r \in 1..Len(order) : order[r] = step
    THEN CHOOSE r \in 1..Len(order) : order[r] = step
    ELSE 0

\* the steps this run has taken so far follow the order, none taken twice
TraceFollows(order) ==
    \A i \in 1..Len(trace), j \in 1..Len(trace) :
        i < j => Rank(order, trace[i]) < Rank(order, trace[j])

RunCompleted == pc = "done" /\ abort_stage = ""

\* what every order of the steps is claimed to come with: one read and one
\* write of the store per completed run, the save last, and no write while the
\* notification step is still ahead or under way
StoreReadOnceWrittenOnceAtEnd ==
    /\ loads <= 1
    /\ saves <= 1
    /\ RunCompleted => (loads = 1 /\ saves = 1 /\ trace[Len(trace)] = "save")
    /\ pc # "done" => (saves = 0 /\ store = store_at_start)

\* C6 as stated: extraction completes before the store is loaded, then the
\* diff, then any notification, then the save.
C6_StatedOrder ==
    /\ TraceFollows(<<"extract", "load", "diff", "notify", "save">>)
    /\ StoreReadOnceWrittenOnceAtEnd

\* C6 as the code has it: the store is loaded before extraction starts; the
\* extraction precedes the diff, the diff any notification, and the save is
\* the last step; the store is read once and written once per completed run,
\* never before the notification step is over.
C6_CodeOrder ==
    /\ TraceFollows(<<"load", "extract", "diff", "notify", "save">>)
    /\ (launches > 0 => loads = 1)
    /\ StoreReadOnceWrittenOnceAtEnd

\* a completed run that went through load, extraction, diff and save
C6_Witness ==
    /\ RunCompleted
    /\ trace = <<"load", "extract", "diff", "save">>
    /\ current_jobs # <<>>
    /\ store # store_at_start

\* C7 as stated: a page-level fault closes the browser and returns [], the run
\* finds nothing new, does not notify, and leaves the empty set persisted.
C7_PageFaultEmptiesStore ==
    exit_path = "page_fault" =>
        /\ browser = "closed" /\ closes = 1
        /\ current_jobs = <<>>
        /\ pc \in {"diff", "save", "done"}
        /\ DiffDone => new_jobs = <<>>
        /\ notify_calls = <<>> /\ posts = 0
        /\ pc = "done" => (saves = 1 /\ PersistedSet = {})

\* C7 amended: the same, the persisted set being empty after the run unless
\* the save could not open the store file, which then keeps its content.
C7_PageFaultEmptiesStoreUnlessOpenFails ==
    exit_path = "page_fault" =>
        /\ browser = "closed" /\ closes = 1
        /\ current_jobs = <<>>
        /\ pc \in {"diff", "save", "done"}
        /\ DiffDone => new_jobs = <<>>
        /\ notify_calls = <<>> /\ posts = 0
        /\ pc = "done" =>
            /\ saves = 1
            /\ save_outcome # "open_failed" => PersistedSet = {}
            /\ save_outcome = "open_failed" => store = store_at_start

\* a page-level fault in a run that had signatures persisted, which it erases
C7_Witness ==
    /\ exit_path = "page_fault"
    /\ pc = "done"
    /\ save_outcome = "ok"
    /\ load_previous_jobs(store_at_start) # {}
    /\ store = StoreDoc(<<>>)

\* C8: a run that has ended either completed through the save or stopped at
\* the configuration step or during extraction, and in the latter cases the
\* store is what it was when the run started.
C8_CompletesOrAbortsEarly ==
    RunEnded =>
        \/ RunCompleted /\ saves = 1
        \/ abort_stage \in {"config", "extract"} /\ saves = 0 /\ store = store_at_start

\* C9: when the bot token or the chat id is absent the run is over at once:
\* no browser, no request, no read and no write of the store, which is
\* unchanged.
C9_MissingConfigAbortsBeforeWork ==
    (pc # "start" /\ ~ConfigOk) =>
        /\ pc = "done" /\ abort_stage = "config"
        /\ launches = 0 /\ browser = "none"
        /\ notify_calls = <<>> /\ posts = 0
        /\ loads = 0 /\ saves = 0
        /\ trace = <<>>
        /\ store = store_at_start

\* only the chat id is missing, and a store with signatures is left alone
C9_Witness ==
    /\ pc = "done"
    /\ ~falsy(bot_token)
    /\ falsy(chat_id)
    /\ abort_stage = "config"
    /\ PersistedSet # {}

CleanCards(n) == {i \in 1..n : ~job_cards[i].raises}

\* the k-th of them
CleanCard(n, k) ==
    CHOOSE i \in CleanCards(n) : Cardinality({j \in CleanCards(n) : j < i}) = k - 1

\* C11: an error in one card skips that card only: after n cards jobs_data holds
\* one record for each card processed without error, in card order, and the
\* skipped cards are the others; the loop always reaches the normal return,
\* which hands that list out.
C11_CardErrorSkipsOnlyThatCard ==
    job_cards # <<>> =>
        LET n == idx - 1
        IN  /\ n \in 0..Len(job_cards)
            /\ Len(jobs_data) = Cardinality(CleanCards(n))
            /\ \A k \in 1..Len(jobs_data) :
                jobs_data[k] = extract_card(job_cards[CleanCard(n, k)])
            /\ card_errors = n - Len(jobs_data)
            /\ exit_path \in {"", "normal"}
            /\ abort_stage # "extract"
            /\ pc # "cards" => (exit_path = "normal" /\ n = Len(job_cards)
                                /\ current_jobs = jobs_data)

\* the first card raises and the second one is returned
C11_Witness ==
    /\ exit_path = "normal"
    /\ Len(job_cards) = 2
    /\ job_cards[1].raises
    /\ current_jobs = <<extract_card(job_cards[2])>>

NotifyAttempted == \E i \in 1..Len(trace) : trace[i] = "notify"

\* C12: a notification makes one request with markup and, only when that one
\* fails, one fallback request, so one or two requests in all; its outcome
\* comes back as a value and main goes on to the save, nothing being raised.
C12_OneRequestThenOneFallback ==
    (NotifyAttempted /\ pc # "notify") =>
        /\ Len(notify_calls) = 1
        /\ posts \in {1, 2}
        /\ abort_stage # "notify"
        /\ pc \in {"save", "done"}

\* the signatures a store file holds when it is a document
\* {"signatures": [string, ...]}, and none for every other file
StoredSignatures(file) ==
    IF file.kind = "doc"
    THEN {json_unescape(file.signatures[i]) : i \in 1..Len(file.signatures)}
    ELSE {}

\* C13: load_previous_jobs never raises; a missing, unparsable or malformed
\* store file yields the empty set, and a well-formed document yields exactly
\* the set of its stored signatures
C13_LoadEmptyUnlessWellFormed ==
    loads = 1 =>
        /\ pc # "crashed" \/ abort_stage # "load"
        /\ previous_signatures = StoredSignatures(store_at_start)


\* the job lists save_current_jobs can be given: the records of every listing
\* without a failing card
JobLists ==
    {[i \in 1..Len(l) |-> extract_card(l[i])] :
        l \in {x \in CardLists(MaxCards) : \A i \in 1..Len(x) : ~x[i].raises}}

\* C14: whatever store a run starts from, a successful save of a job list
\* followed by a load returns exactly the set of the signatures of those jobs;
\* so it is for the save of a run and the store that run leaves
C14_LoadAfterSaveIsSignatureSet ==
    /\ pc = "start" =>
          \A jobs \in JobLists :
              load_previous_jobs(save_current_jobs(store, jobs, "ok"))
                  = Range(signatures_of(jobs))
    /\ (pc = "done" /\ save_outcome = "ok") =>
          load_previous_jobs(store) = CurrentSignatureSet

\* a run saved a job whose signature needs escaping, over a document that held
\* other signatures as well
C14_Witness ==
    /\ pc = "done"
    /\ save_outcome = "ok"
    /\ store_at_start.kind = "doc"
    /\ \E i \in 1..Len(current_jobs) :
          \E k \in 1..Len(get_job_signature(current_jobs[i])) :
             get_job_signature(current_jobs[i])[k] \in {"\"", "\\"}
    /\ StoredSignatures(store_at_start) # CurrentSignatureSet
    /\ load_previous_jobs(store) = CurrentSignatureSet


\* whitespace normalization, stated by positions: every character that is not
\* blank is kept, a run of blanks between two such characters becomes one
\* space, and the blanks before the first and after the last one are dropped
Normalized(text) ==
    LET Solid(i) == text[i] \notin Whitespace
        Keep(i) == \/ Solid(i)
                   \/ /\ i > 1
                      /\ Solid(i - 1)
                      /\ \E j \in (i + 1)..Len(text) : Solid(j)
        kept == SelectSeq([i \in 1..Len(text) |-> i], Keep)
    IN  [k \in 1..Len(kept) |-> IF Solid(kept[k]) THEN text[kept[k]] ELSE " "]

\* C16: an extracted description has at most 200 characters; a normalized text
\* of more than 200 characters becomes its first 197 characters and a
\* three-character ellipsis, 200 in all, and a shorter one is the normalized text
C16_DescriptionCapped ==
    pc = "described" =>
        LET normal == Normalized(desc_in)
        IN  /\ Len(desc_out) <= 200
            /\ Len(normal) > 200 =>
                  /\ desc_out = SubSeq(normal, 1, 197) \o <<".", ".", ".">>
                  /\ Len(desc_out) = 200
            /\ Len(normal) <= 200 => desc_out = normal

\* a text with runs of blanks that is longer than 200 characters once
\* normalized has been cut
C16_Witness ==
    /\ pc = "described"
    /\ Len(Normalized(desc_in)) > 200
    /\ Len(Normalized(desc_in)) < Len(desc_in)
    /\ Len(desc_out) = 200


SaveFailed == save_outcome \in {"open_failed", "write_failed"}

\* C15: a failing save does not end the run abnormally, and after it the store
\* still holds the snapshot it held before: the next run loads the signature
\* set this run loaded
C15_FailedSaveKeepsSnapshot ==
    (saves = 1 /\ SaveFailed) =>
        /\ pc = "done"
        /\ load_previous_jobs(store) = load_previous_jobs(store_at_start)


\* this run scraped, record for record, the non-empty listing the previous run
\* scraped
SameListingAsPriorRun ==
    /\ runs >= 2
    /\ exit_path = "normal"
    /\ current_jobs # <<>>
    /\ Len(current_jobs) = Len(prior_jobs)
    /\ \A i \in 1..Len(current_jobs) : SameContent(current_jobs[i], prior_jobs[i])

\* C17: when two consecutive runs with valid configuration scrape the same
\* non-empty listing, the second finds no new record, attempts no
\* notification, and ends with the persisted signature set the first run left
\* (runs whose save itself faults are left aside)
C17_SecondRunFindsNothingNew ==
    (/\ SameListingAsPriorRun
     /\ ConfigOk
     /\ prior_outcome # "open_failed" /\ prior_outcome # "write_failed"
     /\ ~SaveFailed) =>
        /\ DiffDone => new_jobs = <<>>
        /\ ~NotifyAttempted
        /\ RunEnded => PersistedSet = load_previous_jobs(store_at_start)


\* the snapshot the immediately preceding run wrote
PriorSnapshot == Range(signatures_of(prior_jobs))

\* C18: after a run that completed and saved, a current job whose signature is
\* absent from the snapshot of that run is in the new list, whether or not an
\* earlier run had persisted the signature
C18_OnlyLastSnapshotDecides ==
    (runs >= 2 /\ prior_outcome = "ok" /\ DiffDone) =>
        \A i \in 1..Len(current_jobs) :
            get_job_signature(current_jobs[i]) \notin PriorSnapshot =>
                \E k \in 1..Len(new_jobs) : new_jobs[k] = current_jobs[i]

\* a job persisted before the preceding run, left out of the listing that run
\* saved, is new in this run
C18_Witness ==
    /\ runs >= 2
    /\ prior_outcome = "ok"
    /\ prior_jobs # <<>>
    /\ DiffDone
    /\ \E i \in 1..Len(current_jobs) :
          /\ get_job_signature(current_jobs[i]) \in ever_persisted
          /\ get_job_signature(current_jobs[i]) \notin PriorSnapshot
          /\ \E k \in 1..Len(new_jobs) : new_jobs[k] = current_jobs[i]


\* the positions of the records of a list that carry a signature
PositionsOf(signature, jobs) ==
    {i \in 1..Len(jobs) : get_job_signature(jobs[i]) = signature}

\* C19: when the listing holds two or more records of one signature that the
\* previous set lacks, every one of them is in the new list, and the store the
\* run leaves loads with that signature as a member (runs whose save itself
\* faults are left aside)
C19_DuplicatesAllNewStoredOnce ==
    (ConfigOk /\ exit_path = "normal" /\ ~SaveFailed) =>
        \A signature \in CurrentSignatureSet :
            (/\ Cardinality(PositionsOf(signature, current_jobs)) >= 2
             /\ signature \notin previous_signatures) =>
                /\ DiffDone =>
                      Cardinality(PositionsOf(signature, new_jobs))
                          = Cardinality(PositionsOf(signature, current_jobs))
                /\ RunEnded => signature \in PersistedSet


====
